---------------------------- MODULE Spec2Model ----------------------------
(***************************************************************************)
(* Inventory management system: the Product hierarchy, the Inventory store *)
(* with its JSON backing file, and the Sales ledger with its own file.     *)
(*                                                                         *)
(* Prices are numbers of cents (the code's floats; every claim checked     *)
(* here is about exact products and sums, which integers compute).  A      *)
(* Python dict is a sequence of key/value entries in insertion order.  A   *)
(* string that the code parses or formats (an ISO date) is a sequence of   *)
(* one-character strings.                                                  *)
(***************************************************************************)
EXTENDS Integers, Sequences, FiniteSets, TLC

VARIABLES
    products,       \* Inventory._products: entries [key, value], insertion order
    inventoryFile,  \* the content of inventory.json
    sales_log,      \* Sales._sales_log
    salesFile,      \* the content of sales.json
    faults,         \* file writes that have failed so far
    last            \* the last call: operation, exception raised, value returned

vars == <<products, inventoryFile, sales_log, salesFile, faults, last>>

---------------------------------------------------------------------------
(* Bounds of the model *)

\* Restocking is not offered once a product holds this many units.
MaxQuantity == 2
\* Sales are not offered once the ledger holds this many records.
MaxSales == 2
\* File writes that may fail in one run.
MaxFaults == 1

ProductIds == {"p1", "p2"}
NewQuantities == {-2, 2}
SellQuantities == {-1, 0, 1, 3}
RestockAmounts == {-1, 1}
ExpiryStrings ==
    { <<"2", "0", "2", "5", "-", "1", "2", "-", "3", "1">>,
      <<"2", "0", "2", "6", "-", "0", "1", "-", "0", "1">>,
      <<"2", "0", "2", "6", "-", "0", "2", "-", "3", "0">> }
\* date.today() and datetime.now() during the run
Today == <<2026, 1, 1>>

---------------------------------------------------------------------------
(* Dates: datetime.date, date.fromisoformat, date.isoformat *)

DigitChars == <<"0", "1", "2", "3", "4", "5", "6", "7", "8", "9">>

IsDigit(c) == \E i \in 1..10 : DigitChars[i] = c

DigitVal(c) == (CHOOSE i \in 1..10 : DigitChars[i] = c) - 1

IsLeap(y) == (y % 4 = 0 /\ y % 100 # 0) \/ y % 400 = 0

DaysInMonth(y, m) ==
    IF m = 2 THEN (IF IsLeap(y) THEN 29 ELSE 28)
    ELSE IF m \in {4, 6, 9, 11} THEN 30 ELSE 31

\* date.fromisoformat on a YYYY-MM-DD string: the date, or <<>> for ValueError.
fromisoformat(s) ==
    IF /\ Len(s) = 10
       /\ s[5] = "-" /\ s[8] = "-"
       /\ \A i \in {1, 2, 3, 4, 6, 7, 9, 10} : IsDigit(s[i])
    THEN LET y == DigitVal(s[1]) * 1000 + DigitVal(s[2]) * 100
                  + DigitVal(s[3]) * 10 + DigitVal(s[4])
             m == DigitVal(s[6]) * 10 + DigitVal(s[7])
             d == DigitVal(s[9]) * 10 + DigitVal(s[10])
         IN IF y >= 1 /\ m \in 1..12 /\ d >= 1 /\ d <= DaysInMonth(y, m)
            THEN <<y, m, d>>
            ELSE <<>>
    ELSE <<>>

\* The date written day first: DD-MM-YYYY
isoformat_DayFirst(d) ==
    << DigitChars[((d[3] \div 10) % 10) + 1], DigitChars[(d[3] % 10) + 1], "-",
       DigitChars[((d[2] \div 10) % 10) + 1], DigitChars[(d[2] % 10) + 1], "-",
       DigitChars[((d[1] \div 1000) % 10) + 1], DigitChars[((d[1] \div 100) % 10) + 1],
       DigitChars[((d[1] \div 10) % 10) + 1], DigitChars[(d[1] % 10) + 1] >>

\* date.isoformat: zero-padded YYYY-MM-DD.
isoformat(d) ==
    << DigitChars[((d[1] \div 1000) % 10) + 1], DigitChars[((d[1] \div 100) % 10) + 1],
       DigitChars[((d[1] \div 10) % 10) + 1], DigitChars[(d[1] % 10) + 1], "-",
       DigitChars[((d[2] \div 10) % 10) + 1], DigitChars[(d[2] % 10) + 1], "-",
       DigitChars[((d[3] \div 10) % 10) + 1], DigitChars[(d[3] % 10) + 1] >>

\* date.__gt__: a > b, by year, then month, then day.
DateAfter(a, b) ==
    \/ a[1] > b[1]
    \/ a[1] = b[1] /\ a[2] > b[2]
    \/ a[1] = b[1] /\ a[2] = b[2] /\ a[3] > b[3]

---------------------------------------------------------------------------
(* The Product hierarchy *)

\* ElectronicProduct(product_id, name, price, quantity, warranty_years, brand):
\* the constructors store the quantity as given, without the setter's check.
ElectronicProduct(pid, name, price, quantity, warranty_years, brand) ==
    [cls |-> "ElectronicProduct", product_id |-> pid, name |-> name,
     price |-> price, quantity |-> quantity,
     warranty_years |-> warranty_years, brand |-> brand]

ClothingProduct(pid, name, price, quantity, size, material) ==
    [cls |-> "ClothingProduct", product_id |-> pid, name |-> name,
     price |-> price, quantity |-> quantity,
     size |-> size, material |-> material]

\* GroceryProduct: <<>> when the expiry string does not parse
\* (InvalidProductDataError), else the product holding the parsed date.
GroceryProduct(pid, name, price, quantity, expiry_date) ==
    IF fromisoformat(expiry_date) = <<>> THEN <<>>
    ELSE [cls |-> "GroceryProduct", product_id |-> pid, name |-> name,
          price |-> price, quantity |-> quantity,
          expiry_date |-> fromisoformat(expiry_date)]

\* is_expired with >= for >
is_expired_OnTheDay(p, day) == ~DateAfter(p.expiry_date, day)

\* GroceryProduct.is_expired
is_expired(p, day) == DateAfter(day, p.expiry_date)

\* get_total_value adding where it multiplies
get_total_value_Sum(p) == p.price + p.quantity

\* Product.get_total_value
get_total_value(p) == p.price * p.quantity

\* The quantity setter: the value it accepts.
QuantitySetterAccepts(value) == ~(value < 0)

\* Product.restock: the exception it raises ("none": it returns).
RestockExc(p, amount) ==
    IF amount < 0 THEN "ValueError"
    ELSE IF ~QuantitySetterAccepts(p.quantity + amount) THEN "ValueError"
    ELSE "none"

RestockMsg(p, amount) ==
    IF amount < 0 THEN "Restock amount cannot be negative"
    ELSE IF ~QuantitySetterAccepts(p.quantity + amount) THEN "Quantity cannot be negative"
    ELSE ""

\* Product.restock: the product afterwards.
Restocked(p, amount) ==
    IF RestockExc(p, amount) = "none"
    THEN [p EXCEPT !.quantity = p.quantity + amount]
    ELSE p

\* Product.sell: the exception it raises ("none": it returns).
SellExc(p, quantity) ==
    IF quantity < 0 THEN "ValueError"
    ELSE IF quantity > p.quantity THEN "InsufficientStockError"
    ELSE IF ~QuantitySetterAccepts(p.quantity - quantity) THEN "ValueError"
    ELSE "none"

SellMsg(p, quantity) ==
    IF quantity < 0 THEN "Sell quantity cannot be negative"
    ELSE IF quantity > p.quantity THEN "Insufficient stock"
    ELSE IF ~QuantitySetterAccepts(p.quantity - quantity) THEN "Quantity cannot be negative"
    ELSE ""

\* Product.sell adding where it subtracts
Sold_Adds(p, quantity) ==
    IF SellExc(p, quantity) = "none"
    THEN [p EXCEPT !.quantity = p.quantity + quantity]
    ELSE p

\* Product.sell: the product afterwards.
Sold(p, quantity) ==
    IF SellExc(p, quantity) = "none"
    THEN [p EXCEPT !.quantity = p.quantity - quantity]
    ELSE p

\* to_dict of each class: the shared fields, the type tag, the class's own fields.
to_dict(p) ==
    LET base == [product_id |-> p.product_id, name |-> p.name, price |-> p.price,
                 quantity |-> p.quantity, type |-> p.cls]
    IN CASE p.cls = "ElectronicProduct" ->
              [product_id |-> base.product_id, name |-> base.name, price |-> base.price,
               quantity |-> base.quantity, type |-> base.type,
               warranty_years |-> p.warranty_years, brand |-> p.brand]
         [] p.cls = "ClothingProduct" ->
              [product_id |-> base.product_id, name |-> base.name, price |-> base.price,
               quantity |-> base.quantity, type |-> base.type,
               size |-> p.size, material |-> p.material]
         [] p.cls = "GroceryProduct" ->
              [product_id |-> base.product_id, name |-> base.name, price |-> base.price,
               quantity |-> base.quantity, type |-> base.type,
               expiry_date |-> isoformat(p.expiry_date)]

---------------------------------------------------------------------------
(* Python dict operations on a sequence of entries *)

DictKeys(d) == {d[i].key : i \in DOMAIN d}

DictHas(d, k) == \E i \in DOMAIN d : d[i].key = k

DictIndex(d, k) == CHOOSE i \in DOMAIN d : d[i].key = k

\* d[k], for a key of d
DictGet(d, k) == d[DictIndex(d, k)].value

\* d[k] = v: replaces the value in place, or appends a new entry
DictSet(d, k, v) ==
    IF DictHas(d, k)
    THEN [d EXCEPT ![DictIndex(d, k)] = [key |-> k, value |-> v]]
    ELSE Append(d, [key |-> k, value |-> v])

\* d.pop(k), for a key of d: the dict afterwards
DictPop(d, k) ==
    LET i == DictIndex(d, k)
    IN SubSeq(d, 1, i - 1) \o SubSeq(d, i + 1, Len(d))

---------------------------------------------------------------------------
(* Files.  A write either succeeds, fails at open() (the file is untouched) *)
(* or fails after open() truncated the file (a partial JSON text).          *)

NoFile == [kind |-> "absent"]
PartialFile == [kind |-> "partial"]
JsonFile(data) == [kind |-> "json", data |-> data]

IoOutcomes == {"ok", "open_failed", "write_failed"}

\* open(path, 'w') and json.dump(data): the file afterwards
WriteFile(file, data, io) ==
    CASE io = "ok" -> JsonFile(data)
      [] io = "open_failed" -> file
      [] io = "write_failed" -> PartialFile

---------------------------------------------------------------------------
(* Inventory *)

\* What a call leaves: the store, the file, the exception raised ("none": the
\* call returned), its message, the returned value (<<>>: None, <<v>>: v) and
\* the number of file writes that failed.
Outcome(d, file, exc, msg, ret, failed) ==
    [products |-> d, file |-> file, exc |-> exc, msg |-> msg, ret |-> ret,
     failed |-> failed]

\* Inventory.get_product: <<>> for None
get_product(d, pid) == IF DictHas(d, pid) THEN <<DictGet(d, pid)>> ELSE <<>>

\* Inventory.save_inventory
save_inventory(d, file, io) ==
    LET data == [i \in 1..Len(d) |-> to_dict(d[i].value)]
    IN IF io = "ok"
       THEN Outcome(d, WriteFile(file, data, io), "none", "", <<>>, 0)
       ELSE Outcome(d, WriteFile(file, data, io), "InvalidProductDataError",
                    "Failed to save inventory", <<>>, 1)

\* add_product without its duplicate check
add_product_NoDuplicateCheck(d, file, product, io) ==
    save_inventory(DictSet(d, product.product_id, product), file, io)

\* add_product without its save_inventory
add_product_NoSave(d, file, product, io) ==
    IF DictHas(d, product.product_id)
    THEN Outcome(d, file, "DuplicateProductError", "already exists", <<>>, 0)
    ELSE Outcome(DictSet(d, product.product_id, product), file, "none", "", <<>>, 0)

\* add_product taking the product out again when save_inventory raises
add_product_RollsBack(d, file, product, io) ==
    IF DictHas(d, product.product_id)
    THEN Outcome(d, file, "DuplicateProductError", "already exists", <<>>, 0)
    ELSE LET s == save_inventory(DictSet(d, product.product_id, product), file, io)
         IN IF s.exc = "none" THEN s ELSE [s EXCEPT !.products = d]

\* Inventory.add_product
add_product(d, file, product, io) ==
    IF DictHas(d, product.product_id)
    THEN Outcome(d, file, "DuplicateProductError", "already exists", <<>>, 0)
    ELSE save_inventory(DictSet(d, product.product_id, product), file, io)

\* remove_product with pop(product_id, None): a missing id is no error
remove_product_IgnoreMissing(d, file, pid, io) ==
    IF ~DictHas(d, pid)
    THEN save_inventory(d, file, io)
    ELSE save_inventory(DictPop(d, pid), file, io)

\* Inventory.remove_product
remove_product(d, file, pid, io) ==
    IF ~DictHas(d, pid)
    THEN Outcome(d, file, "ValueError", "not found", <<>>, 0)
    ELSE save_inventory(DictPop(d, pid), file, io)

\* sell_product without its save_inventory: the stock is lowered in the store
\* only
sell_product_NoSave(d, file, pid, quantity, io) ==
    IF get_product(d, pid) = <<>>
    THEN Outcome(d, file, "ValueError", "not found", <<>>, 0)
    ELSE LET product == get_product(d, pid)[1]
         IN IF SellExc(product, quantity) # "none"
            THEN Outcome(d, file, SellExc(product, quantity),
                         SellMsg(product, quantity), <<>>, 0)
            ELSE Outcome(DictSet(d, pid, Sold(product, quantity)), file, "none",
                         "", <<product.price * quantity>>, 0)

\* Inventory.sell_product
sell_product(d, file, pid, quantity, io) ==
    IF get_product(d, pid) = <<>>
    THEN Outcome(d, file, "ValueError", "not found", <<>>, 0)
    ELSE LET product == get_product(d, pid)[1]
         IN IF SellExc(product, quantity) # "none"
            THEN Outcome(d, file, SellExc(product, quantity),
                         SellMsg(product, quantity), <<>>, 0)
            ELSE LET s == save_inventory(DictSet(d, pid, Sold(product, quantity)),
                                         file, io)
                 IN IF s.exc # "none" THEN s
                    ELSE [s EXCEPT !.ret = <<product.price * quantity>>]

\* Inventory.restock_product
restock_product(d, file, pid, quantity, io) ==
    IF get_product(d, pid) = <<>>
    THEN Outcome(d, file, "ValueError", "not found", <<>>, 0)
    ELSE LET product == get_product(d, pid)[1]
         IN IF RestockExc(product, quantity) # "none"
            THEN Outcome(d, file, RestockExc(product, quantity),
                         RestockMsg(product, quantity), <<>>, 0)
            ELSE save_inventory(DictSet(d, pid, Restocked(product, quantity)),
                                file, io)

\* Inventory.total_inventory_value: sum() over the values in iteration order
RECURSIVE SumValues(_, _)
SumValues(d, i) ==
    IF i > Len(d) THEN 0
    ELSE get_total_value(d[i].value) + SumValues(d, i + 1)

total_inventory_value(d) == SumValues(d, 1)

\* The ids remove_expired_products collects, in iteration order
RECURSIVE ExpiredFrom(_, _, _)
ExpiredFrom(d, day, i) ==
    IF i > Len(d) THEN <<>>
    ELSE (IF d[i].value.cls = "GroceryProduct" /\ is_expired(d[i].value, day)
          THEN <<d[i].value.product_id>> ELSE <<>>)
         \o ExpiredFrom(d, day, i + 1)

expired_ids(d, day) == ExpiredFrom(d, day, 1)

\* The loop of remove_expired_products from the i-th id on; the write of the
\* failAt-th removal has outcome io, every other write succeeds.
RECURSIVE RemoveEach(_, _, _, _, _, _)
RemoveEach(d, file, ids, i, failAt, io) ==
    IF i > Len(ids) THEN Outcome(d, file, "none", "", <<>>, 0)
    ELSE LET r == remove_product(d, file, ids[i], IF i = failAt THEN io ELSE "ok")
         IN IF r.exc # "none" THEN r
            ELSE RemoveEach(r.products, r.file, ids, i + 1, failAt, io)

\* Inventory.remove_expired_products
remove_expired_products(d, file, day, failAt, io) ==
    RemoveEach(d, file, expired_ids(d, day), 1, failAt, io)

\* The product load_inventory builds from one item of the file: <<>> when it
\* raises (an unknown type tag, an expiry date that does not parse).
LoadItem(item) ==
    CASE item.type = "ElectronicProduct" ->
           ElectronicProduct(item.product_id, item.name, item.price, item.quantity,
                             item.warranty_years, item.brand)
      [] item.type = "ClothingProduct" ->
           ClothingProduct(item.product_id, item.name, item.price, item.quantity,
                           item.size, item.material)
      [] item.type = "GroceryProduct" ->
           GroceryProduct(item.product_id, item.name, item.price, item.quantity,
                          item.expiry_date)
      [] OTHER -> <<>>

\* The loop of load_inventory from the i-th item on: the products loaded before
\* an item that raises stay in the store.
RECURSIVE LoadItems(_, _, _, _)
LoadItems(d, file, data, i) ==
    IF i > Len(data) THEN Outcome(d, file, "none", "", <<>>, 0)
    ELSE IF LoadItem(data[i]) = <<>>
         THEN Outcome(d, file, "InvalidProductDataError", "Failed to load inventory",
                      <<>>, 0)
         ELSE LoadItems(DictSet(d, LoadItem(data[i]).product_id, LoadItem(data[i])),
                        file, data, i + 1)

\* Inventory.load_inventory into the store d
load_inventory(d, file) ==
    CASE file.kind = "absent" -> Outcome(d, file, "none", "", <<>>, 0)
      [] file.kind = "partial" ->
           Outcome(d, file, "InvalidProductDataError", "Failed to load inventory",
                   <<>>, 0)
      [] file.kind = "json" -> LoadItems(d, file, file.data, 1)

---------------------------------------------------------------------------
(* Sales *)

\* str(n) of a non-negative integer
RECURSIVE Decimal(_)
Decimal(n) ==
    IF n < 10 THEN <<DigitChars[n + 1]>>
    ELSE Decimal(n \div 10) \o <<DigitChars[(n % 10) + 1]>>

\* The sale id numbered from the ledger's length, without the + 1
SaleId_FromZero(n) == <<"S", "A", "L", "E", "_">> \o Decimal(n - 1)

\* f"SALE_{n}"
SaleId(n) == <<"S", "A", "L", "E", "_">> \o Decimal(n)

\* What a call of Sales leaves: as Outcome, with the ledger and its file.
SalesOutcome(o, log, sfile, exc, msg, ret, failed) ==
    [products |-> o.products, file |-> o.file, log |-> log, sfile |-> sfile,
     exc |-> exc, msg |-> msg, ret |-> ret, failed |-> failed]

\* Sales.save_sales: the ledger file afterwards
save_sales(log, sfile, io) == WriteFile(sfile, log, io)

\* Sales.load_sales: the ledger and the exception raised
load_sales(log, sfile) ==
    CASE sfile.kind = "absent" -> [log |-> log, exc |-> "none"]
      [] sfile.kind = "partial" -> [log |-> log, exc |-> "InvalidProductDataError"]
      [] sfile.kind = "json" -> [log |-> sfile.data, exc |-> "none"]

\* Sales.process_sale from the record it builds to its end, s being what
\* sell_product left and io2 the outcome of the ledger file's write.
record_sale(s, log, sfile, pid, quantity, io2, stamp) ==
    LET total_price == s.ret[1]
        sale_record ==
            [sale_id |-> SaleId(Len(log) + 1),
             product_id |-> pid,
             product_name |-> get_product(s.products, pid)[1].name,
             quantity |-> quantity,
             total_price |-> total_price,
             timestamp |-> stamp]
        log2 == Append(log, sale_record)
    IN IF io2 = "ok"
       THEN SalesOutcome(s, log2, save_sales(log2, sfile, io2), "none", "",
                         <<total_price>>, 0)
       ELSE SalesOutcome(s, log2, save_sales(log2, sfile, io2),
                         "InvalidProductDataError", "Failed to save sales",
                         <<>>, 1)

\* process_sale appending a record of the sale that sell_product refused
process_sale_RecordsRefused(d, file, log, sfile, pid, quantity, io1, io2, stamp) ==
    LET s == sell_product(d, file, pid, quantity, io1)
        refused == [sale_id |-> SaleId(Len(log) + 1), product_id |-> pid,
                    product_name |-> "", quantity |-> quantity,
                    total_price |-> 0, timestamp |-> stamp]
    IN IF s.exc # "none"
       THEN SalesOutcome(s, Append(log, refused), sfile, s.exc, s.msg, <<>>,
                         s.failed)
       ELSE record_sale(s, log, sfile, pid, quantity, io2, stamp)

\* Sales.process_sale; io1 is the outcome of the inventory file's write, io2
\* of the ledger file's, stamp is datetime.now().isoformat().
process_sale(d, file, log, sfile, pid, quantity, io1, io2, stamp) ==
    LET s == sell_product(d, file, pid, quantity, io1)
    IN IF s.exc # "none"
       THEN SalesOutcome(s, log, sfile, s.exc, s.msg, <<>>, s.failed)
       ELSE record_sale(s, log, sfile, pid, quantity, io2, stamp)

---------------------------------------------------------------------------
(* The program: the tests, cli_menu and the page-based shell call these *)

Call(op, pid, qty, o) ==
    [op |-> op, pid |-> pid, qty |-> qty, exc |-> o.exc, msg |-> o.msg,
     ret |-> o.ret]

\* A call records "" or 0 where it takes no product id or no quantity to sell
\* or restock.
CallRaised(op, pid, qty, exc, msg) ==
    [op |-> op, pid |-> pid, qty |-> qty, exc |-> exc, msg |-> msg, ret |-> <<>>]

\* Inventory() and Sales(inventory) on a first run: no file exists yet.
Init ==
    /\ products = <<>>
    /\ inventoryFile = NoFile
    /\ sales_log = <<>>
    /\ salesFile = NoFile
    /\ faults = 0
    /\ last = CallRaised("start", "", 0, "none", "")

\* The process is up and between two calls: its last start did not raise, and
\* no process_sale is under way.
Running ==
    /\ ~(last.op = "start" /\ last.exc # "none")
    /\ last.exc # "pending"

\* A write may fail only while the model's budget of failures lasts.
IoAllowed(io) == io = "ok" \/ faults < MaxFaults

\* The products the callers construct: <<>> where the constructor raises.
NewProducts(pid, quantity) ==
    { ElectronicProduct(pid, "Tablet", 49999, quantity, 1, "Samsung"),
      ClothingProduct(pid, "T-shirt", 1999, quantity, "M", "Cotton") }
    \cup { GroceryProduct(pid, "Milk", 299, quantity, e) : e \in ExpiryStrings }

\* The products of NewProducts that the ledger's runs sell.
SaleProducts(pid, quantity) ==
    { ElectronicProduct(pid, "Tablet", 49999, quantity, 1, "Samsung"),
      ClothingProduct(pid, "T-shirt", 1999, quantity, "M", "Cotton") }

\* Build a product, then inventory.add_product; when the constructor raises,
\* add_product is not called.
Add(pid, quantity, product, io) ==
    /\ Running
    /\ IoAllowed(io)
    /\ IF product = <<>>
       THEN /\ io = "ok"
            /\ last' = CallRaised("GroceryProduct", pid, 0, "InvalidProductDataError",
                                   "Invalid expiry date format")
            /\ UNCHANGED <<products, inventoryFile, faults>>
       ELSE LET o == add_product(products, inventoryFile, product, io)
            IN /\ io # "ok" => o.failed = 1
               /\ products' = o.products
               /\ inventoryFile' = o.file
               /\ faults' = faults + o.failed
               /\ last' = Call("add_product", pid, 0, o)
    /\ UNCHANGED <<sales_log, salesFile>>

AddProduct ==
    \E pid \in ProductIds, quantity \in NewQuantities, io \in IoOutcomes :
       \E product \in NewProducts(pid, quantity) : Add(pid, quantity, product, io)

AddSaleProduct ==
    \E pid \in ProductIds, quantity \in NewQuantities \cap Nat, io \in IoOutcomes :
       \E product \in SaleProducts(pid, quantity) : Add(pid, quantity, product, io)

RemoveProduct ==
    /\ Running
    /\ \E pid \in ProductIds, io \in IoOutcomes :
         LET o == remove_product(products, inventoryFile, pid, io)
         IN /\ IoAllowed(io)
            /\ io # "ok" => o.failed = 1
            /\ products' = o.products
            /\ inventoryFile' = o.file
            /\ faults' = faults + o.failed
            /\ last' = Call("remove_product", pid, 0, o)
    /\ UNCHANGED <<sales_log, salesFile>>

SellProduct ==
    /\ Running
    /\ \E pid \in ProductIds, quantity \in SellQuantities, io \in IoOutcomes :
         LET o == sell_product(products, inventoryFile, pid, quantity, io)
         IN /\ IoAllowed(io)
            /\ io # "ok" => o.failed = 1
            /\ products' = o.products
            /\ inventoryFile' = o.file
            /\ faults' = faults + o.failed
            /\ last' = Call("sell_product", pid, quantity, o)
    /\ UNCHANGED <<sales_log, salesFile>>

RestockProduct ==
    /\ Running
    /\ \E pid \in ProductIds, quantity \in RestockAmounts, io \in IoOutcomes :
         LET o == restock_product(products, inventoryFile, pid, quantity, io)
         IN /\ IoAllowed(io)
            /\ io # "ok" => o.failed = 1
            /\ DictHas(products, pid) => DictGet(products, pid).quantity < MaxQuantity
            /\ products' = o.products
            /\ inventoryFile' = o.file
            /\ faults' = faults + o.failed
            /\ last' = Call("restock_product", pid, quantity, o)
    /\ UNCHANGED <<sales_log, salesFile>>

ProcessSale ==
    /\ Running
    /\ Len(sales_log) < MaxSales
    /\ \E pid \in ProductIds, quantity \in SellQuantities,
          io1 \in IoOutcomes, io2 \in IoOutcomes :
         LET o == process_sale(products, inventoryFile, sales_log, salesFile,
                               pid, quantity, io1, io2, isoformat(Today))
         IN /\ IoAllowed(io1) /\ IoAllowed(io2)
            /\ io1 = "ok" \/ io2 = "ok"
            /\ (io1 # "ok" \/ io2 # "ok") => o.failed = 1
            /\ products' = o.products
            /\ inventoryFile' = o.file
            /\ sales_log' = o.log
            /\ salesFile' = o.sfile
            /\ faults' = faults + o.failed
            /\ last' = Call("process_sale", pid, quantity, o)

RemoveExpiredProducts ==
    /\ Running
    /\ \E failAt \in 0..Len(products), io \in IoOutcomes :
         LET o == remove_expired_products(products, inventoryFile, Today, failAt, io)
         IN /\ IoAllowed(io)
            /\ failAt = 0 <=> io = "ok"
            /\ failAt <= Len(expired_ids(products, Today))
            /\ products' = o.products
            /\ inventoryFile' = o.file
            /\ faults' = faults + o.failed
            /\ last' = Call("remove_expired_products", "", 0, o)
    /\ UNCHANGED <<sales_log, salesFile>>

GetProduct ==
    /\ Running
    /\ \E pid \in ProductIds :
         last' = [op |-> "get_product", pid |-> pid, qty |-> 0, exc |-> "none",
                  msg |-> "", ret |-> get_product(products, pid)]
    /\ UNCHANGED <<products, inventoryFile, sales_log, salesFile, faults>>

TotalInventoryValue ==
    /\ Running
    /\ last' = [op |-> "total_inventory_value", pid |-> "", qty |-> 0,
                exc |-> "none", msg |-> "",
                ret |-> <<total_inventory_value(products)>>]
    /\ UNCHANGED <<products, inventoryFile, sales_log, salesFile, faults>>

\* Choice 4 of the menu
SaveInventory ==
    /\ Running
    /\ \E io \in IoOutcomes :
         LET o == save_inventory(products, inventoryFile, io)
         IN /\ IoAllowed(io)
            /\ io # "ok" => o.failed = 1
            /\ inventoryFile' = o.file
            /\ faults' = faults + o.failed
            /\ last' = Call("save_inventory", "", 0, o)
    /\ UNCHANGED <<products, sales_log, salesFile>>

\* Choice 5 of the menu: load_inventory into the store as it is
LoadInventory ==
    /\ Running
    /\ LET o == load_inventory(products, inventoryFile)
       IN /\ products' = o.products
          /\ last' = Call("load_inventory", "", 0, o)
    /\ UNCHANGED <<inventoryFile, sales_log, salesFile, faults>>

\* The process ends and starts again: Inventory(), then Sales(inventory), each
\* loading its file into an empty object.  When a load raises the process
\* does not come up.
Restart ==
    /\ LET o == load_inventory(<<>>, inventoryFile)
           l == load_sales(<<>>, salesFile)
       IN IF o.exc # "none" \/ l.exc # "none"
          THEN /\ products' = <<>>
               /\ sales_log' = <<>>
               /\ last' = CallRaised("start", "", 0, "InvalidProductDataError",
                                   "Failed to load")
          ELSE /\ products' = o.products
               /\ sales_log' = l.log
               /\ last' = CallRaised("start", "", 0, "none", "")
    /\ UNCHANGED <<inventoryFile, salesFile, faults>>

\* process_sale up to the return of inventory.sell_product: when that
\* returns, the call is under way ("pending") with total_price in hand.
ProcessSaleSell ==
    /\ Running
    /\ Len(sales_log) < MaxSales
    /\ \E pid \in ProductIds, quantity \in SellQuantities, io1 \in IoOutcomes :
         LET o == sell_product(products, inventoryFile, pid, quantity, io1)
         IN /\ IoAllowed(io1)
            /\ io1 # "ok" => o.failed = 1
            /\ products' = o.products
            /\ inventoryFile' = o.file
            /\ faults' = faults + o.failed
            /\ last' = IF o.exc = "none"
                       THEN [Call("process_sale", pid, quantity, o)
                                EXCEPT !.exc = "pending"]
                       ELSE Call("process_sale", pid, quantity, o)
    /\ UNCHANGED <<sales_log, salesFile>>

\* process_sale from there: the record, its append and save_sales.
ProcessSaleRecord ==
    /\ last.op = "process_sale" /\ last.exc = "pending"
    /\ \E io2 \in IoOutcomes :
         LET s == Outcome(products, inventoryFile, "none", "", last.ret, 0)
             o == record_sale(s, sales_log, salesFile, last.pid, last.qty, io2,
                              isoformat(Today))
         IN /\ IoAllowed(io2)
            /\ sales_log' = o.log
            /\ salesFile' = o.sfile
            /\ faults' = faults + o.failed
            /\ last' = Call("process_sale", last.pid, last.qty, o)
    /\ UNCHANGED <<products, inventoryFile>>

\* The Inventory API, as the tests and the shells call it.
Next ==
    \/ AddProduct
    \/ RemoveProduct
    \/ SellProduct
    \/ RestockProduct
    \/ RemoveExpiredProducts
    \/ GetProduct
    \/ TotalInventoryValue
    \/ SaveInventory
    \/ LoadInventory
    \/ Restart

Spec == Init /\ [][Next]_vars

\* Inventory and Sales together: stocking, restocking and selling through the
\* ledger.
SalesNext ==
    \/ AddSaleProduct
    \/ RestockProduct
    \/ ProcessSale
    \/ Restart

SalesSpec == Init /\ [][SalesNext]_vars

\* Selling, directly (Inventory.sell_product) and through the ledger
\* (Sales.process_sale).
SellNext ==
    \/ AddSaleProduct
    \/ SellProduct
    \/ ProcessSale

SellSpec == Init /\ [][SellNext]_vars

\* A sale in its two writes, with the process ending and starting again at
\* any point, between the two writes included.
CrashNext ==
    \/ AddSaleProduct
    \/ ProcessSaleSell
    \/ ProcessSaleRecord
    \/ Restart

CrashSpec == Init /\ [][CrashNext]_vars

---------------------------------------------------------------------------
(* Properties *)

\* The call that the step made, and the product it names as the step found it.
Called(ops) == last'.op \in ops
Named == DictGet(products, last'.pid)
NamedPresent == DictHas(products, last'.pid)
StoreUntouched == products' = products /\ inventoryFile' = inventoryFile

\* C1: whenever sell_product is called for a product of the store with a
\* quantity greater than its stock, it raises InsufficientStockError and
\* leaves the store and its file as they were.
C1_OversellRaisesInsufficientStock ==
    [][ (Called({"sell_product"}) /\ NamedPresent /\ last'.qty > Named.quantity)
        => (last'.exc = "InsufficientStockError" /\ StoreUntouched) ]_vars

\* C4: every product held by the store has a quantity of at least 0.
C4_QuantityNeverNegative ==
    \A i \in DOMAIN products : products[i].value.quantity >= 0

\* The store with the named product's quantity lowered by the quantity sold
\* and every other entry as it was.
StoreAfterSale ==
    [i \in DOMAIN products |->
        IF products[i].key = last'.pid
        THEN [products[i] EXCEPT !.value.quantity = Named.quantity - last'.qty]
        ELSE products[i]]

SaleWithinStock ==
    /\ Called({"sell_product", "process_sale"})
    /\ NamedPresent
    /\ 0 <= last'.qty /\ last'.qty <= Named.quantity

\* C2 as stated: sell_product and process_sale, for a product of the store
\* with price p and stock n and a quantity q with 0 <= q <= n, leave the
\* product's quantity at n - q, return p * q and change no other product.
C2_SaleReturnsTotal ==
    [][ SaleWithinStock
        => /\ products' = StoreAfterSale
           /\ last'.exc = "none"
           /\ last'.ret = <<Named.price * last'.qty>> ]_vars

\* C2 as amended: such a call leaves the product's quantity at n - q and
\* changes no other product; it returns p * q unless a file write fails, and
\* then it raises InvalidProductDataError instead of returning.
C2_SaleReturnsTotalUnlessWriteFails ==
    [][ SaleWithinStock
        => /\ products' = StoreAfterSale
           /\ \/ /\ last'.exc = "none"
                 /\ last'.ret = <<Named.price * last'.qty>>
                 /\ faults' = faults
              \/ /\ last'.exc = "InvalidProductDataError"
                 /\ last'.ret = <<>>
                 /\ faults' = faults + 1 ]_vars

\* C2's case: a sale of part of a product's stock, made through the ledger
\* with a second product in the store, has returned the total price.
C2_Witness ==
    /\ last.op = "process_sale" /\ last.exc = "none"
    /\ Len(products) = 2
    /\ last.qty = 1
    /\ DictGet(products, last.pid).quantity = 1
    /\ last.ret = <<DictGet(products, last.pid).price>>

\* C3: add_product with an id that is a key of the store raises
\* DuplicateProductError and leaves the store and its file as they were; and
\* after every step no two entries of the store share a key or a product id,
\* each entry's key being its product's id.
UniqueIds(d) ==
    /\ \A i \in DOMAIN d : d[i].key = d[i].value.product_id
    /\ \A i, j \in DOMAIN d : d[i].key = d[j].key => i = j

C3_DuplicateAddRejected ==
    [][ /\ (Called({"add_product"}) /\ NamedPresent)
           => (last'.exc = "DuplicateProductError" /\ StoreUntouched
               /\ faults' = faults)
        /\ UniqueIds(products') ]_vars

\* C3's case: an add under an id already in the store has been refused.
C3_Witness ==
    /\ last.op = "add_product" /\ last.exc = "DuplicateProductError"
    /\ DictHas(products, last.pid)

\* "SALE_" followed by i, for i below 10
SaleLabel(i) == <<"S", "A", "L", "E", "_", DigitChars[i + 1]>>

LedgerNumbered(log) ==
    /\ \A i \in DOMAIN log : log[i].sale_id = SaleLabel(i)
    /\ \A i, j \in DOMAIN log : log[i].sale_id = log[j].sale_id => i = j

\* C5: a process_sale that returns has appended exactly one record, whose
\* sale_id is "SALE_" followed by the ledger's length before the call plus
\* one, and has written the ledger file so that load_sales into a new Sales
\* yields the same records; and after every step the i-th record of the
\* ledger has id SALE_i, so that the ids are pairwise distinct.
C5_SequentialSaleIds ==
    [][ /\ (Called({"process_sale"}) /\ last'.exc = "none")
           => /\ Len(sales_log') = Len(sales_log) + 1
              /\ SubSeq(sales_log', 1, Len(sales_log)) = sales_log
              /\ sales_log'[Len(sales_log')].sale_id = SaleLabel(Len(sales_log) + 1)
              /\ sales_log'[Len(sales_log')].product_id = last'.pid
              /\ sales_log'[Len(sales_log')].quantity = last'.qty
              /\ load_sales(<<>>, salesFile') = [log |-> sales_log', exc |-> "none"]
        /\ LedgerNumbered(sales_log') ]_vars

\* C5's case: the second sale has been recorded and written.
C5_Witness ==
    /\ last.op = "process_sale" /\ last.exc = "none"
    /\ Len(sales_log) = 2
    /\ salesFile = JsonFile(sales_log)

\* The days from a fixed origin to the date, in months of 31 days: later dates
\* have greater numbers.
DayNumber(d) == (d[1] * 12 + (d[2] - 1)) * 31 + d[3]

\* A Grocery product whose expiry date is before today
ExpiredGrocery(p) ==
    p.cls = "GroceryProduct" /\ DayNumber(p.expiry_date) < DayNumber(Today)

KeepsEntry(e) == ~ExpiredGrocery(e.value)

\* C6: when remove_expired_products returns, the store holds no Grocery
\* product that expired before today, and every other entry of the store is
\* still there, unchanged and in its place.
C6_RemoveExpiredKeepsTheRest ==
    [][ (Called({"remove_expired_products"}) /\ last'.exc = "none")
        => /\ \A i \in DOMAIN products' : ~ExpiredGrocery(products'[i].value)
           /\ products' = SelectSeq(products, KeepsEntry) ]_vars

\* C6's case: remove_expired_products has returned and the store holds a
\* Grocery product that expires today beside a product that is no Grocery.
C6_Witness ==
    /\ last.op = "remove_expired_products" /\ last.exc = "none"
    /\ Len(products) = 2
    /\ \E i \in DOMAIN products :
          /\ products[i].value.cls = "GroceryProduct"
          /\ products[i].value.expiry_date = Today
    /\ \E i \in DOMAIN products : products[i].value.cls # "GroceryProduct"
    /\ inventoryFile.kind = "json" /\ Len(inventoryFile.data) = 2

\* C7: after add_product, remove_product, restock_product or sell_product
\* has returned, the inventory file holds exactly the serialization of the
\* products of the store, in the store's order.
C7_FileMatchesStoreAfterMutation ==
    (/\ last.op \in {"add_product", "remove_product", "restock_product",
                     "sell_product"}
     /\ last.exc = "none")
    => /\ inventoryFile.kind = "json"
       /\ Len(inventoryFile.data) = Len(products)
       /\ \A i \in DOMAIN products :
             inventoryFile.data[i] = to_dict(products[i].value)

\* C7's case: a sale has returned after an earlier write had failed, with two
\* products in the store.
C7_Witness ==
    /\ last.op = "sell_product" /\ last.exc = "none"
    /\ faults = 1
    /\ Len(products) = 2

\* C8: save_inventory of the store followed by load_inventory into an empty
\* store yields the same entries: each product under its id, of its class,
\* with every field equal.
C8_SaveLoadRoundTrip ==
    LET saved == save_inventory(products, NoFile, "ok")
        loaded == load_inventory(<<>>, saved.file)
    IN /\ saved.exc = "none"
       /\ loaded.exc = "none"
       /\ loaded.products = products

\* C8's case: the process has started from the file it wrote, and holds a
\* Grocery product and a product of another class.
C8_Witness ==
    /\ last.op = "start" /\ last.exc = "none"
    /\ inventoryFile = save_inventory(products, NoFile, "ok").file
    /\ Len(products) = 2
    /\ \E i \in DOMAIN products : products[i].value.cls = "GroceryProduct"
    /\ \E i \in DOMAIN products : products[i].value.cls # "GroceryProduct"

\* The sum of price * quantity over the entries numbered in S
RECURSIVE SumOver(_, _)
SumOver(d, S) ==
    IF S = {} THEN 0
    ELSE LET i == CHOOSE i \in S : TRUE
         IN d[i].value.price * d[i].value.quantity + SumOver(d, S \ {i})

\* C9: total_inventory_value is the sum of price * quantity over the products
\* of the store, and what the call returned is that sum.
C9_TotalIsSumOfPriceTimesQuantity ==
    /\ total_inventory_value(products) = SumOver(products, DOMAIN products)
    /\ last.op = "total_inventory_value"
          => last.ret = <<SumOver(products, DOMAIN products)>>

\* C9's case: the total of a store of two stocked products has been returned.
C9_Witness ==
    /\ last.op = "total_inventory_value"
    /\ Len(products) = 2
    /\ \A i \in DOMAIN products : products[i].value.quantity > 0
    /\ products[1].value.price # products[2].value.price
    /\ last.ret[1] = products[1].value.price * products[1].value.quantity
                     + products[2].value.price * products[2].value.quantity

\* C10: remove_product, sell_product and restock_product with an id that is
\* no key of the store raise the not-found ValueError and leave the store and
\* its file as they were; get_product with such an id returns None.
C10_AbsentIdNotFound ==
    [][ /\ (Called({"remove_product", "sell_product", "restock_product"})
            /\ ~NamedPresent)
           => (last'.exc = "ValueError" /\ last'.msg = "not found"
               /\ StoreUntouched)
        /\ (Called({"get_product"}) /\ ~NamedPresent)
           => (last'.exc = "none" /\ last'.ret = <<>> /\ StoreUntouched) ]_vars

\* C10's case: a sale of an id that the store does not hold, beside a product
\* that it holds, has raised.
C10_Witness ==
    /\ last.op = "sell_product" /\ last.exc = "ValueError" /\ last.msg = "not found"
    /\ ~DictHas(products, last.pid)
    /\ Len(products) = 1

\* The inventory file's content when it holds the store d
Serialized(d) == JsonFile([i \in 1..Len(d) |-> to_dict(d[i].value)])

\* The ledger, in memory or as loaded from its file, has a record of the sale
\* that is under way.
RecordsPendingSale(log) ==
    \E i \in DOMAIN log : log[i].sale_id = SaleId(Len(sales_log) + 1)

\* C11: process_sale writes the inventory file first and the ledger file
\* second.  When its sell_product has returned, the inventory file holds the
\* store with the stock lowered by the quantity sold, and the ledger and its
\* file are as before the call; a process that ends there and starts again
\* finds the lowered stock and a ledger without a record of that sale; and
\* the ledger file is written only by a process_sale whose sell_product has
\* returned, the inventory file holding the lowered stock already.
C11_InventoryWrittenBeforeLedger ==
    [][ /\ (Called({"process_sale"}) /\ last'.exc = "pending")
           => /\ products' = StoreAfterSale
              /\ inventoryFile' = Serialized(products')
              /\ sales_log' = sales_log
              /\ salesFile' = salesFile
              /\ salesFile.kind = "json" => ~RecordsPendingSale(salesFile.data)
        /\ (last.exc = "pending" /\ last'.op = "start")
           => /\ load_inventory(<<>>, inventoryFile).products = products
              /\ last'.exc = "none"
                    => /\ products' = products
                       /\ ~RecordsPendingSale(sales_log')
                       /\ Len(sales_log') <= Len(sales_log)
        /\ salesFile' # salesFile
           => /\ last.op = "process_sale" /\ last.exc = "pending"
              /\ Called({"process_sale"})
              /\ inventoryFile = Serialized(products)
              /\ inventoryFile' = inventoryFile ]_vars

\* C11's case: the process has started again after a sale of one unit wrote
\* the inventory file and not the ledger file: no write has failed, the stock
\* of 2 is 1 in the file and in the store, and there is no ledger.
C11_Witness ==
    /\ last.op = "start" /\ last.exc = "none"
    /\ faults = 0
    /\ Len(products) = 1
    /\ products[1].value.quantity = 1
    /\ inventoryFile = Serialized(products)
    /\ sales_log = <<>>
    /\ salesFile = NoFile

\* A file write failed in add_product, remove_product, restock_product or
\* sell_product.
MutationWriteFailed ==
    /\ Called({"add_product", "remove_product", "restock_product", "sell_product"})
    /\ faults' = faults + 1

\* The store after the call's change: the product appended under its id,
\* taken out, or with its quantity raised or lowered by the call's quantity,
\* every other entry as it was.
MutationApplied ==
    CASE last'.op = "add_product" ->
            /\ ~NamedPresent
            /\ Len(products') = Len(products) + 1
            /\ SubSeq(products', 1, Len(products)) = products
            /\ products'[Len(products')].key = last'.pid
            /\ products'[Len(products')].value.product_id = last'.pid
      [] last'.op = "remove_product" ->
            NamedPresent /\ products' = DictPop(products, last'.pid)
      [] last'.op = "restock_product" ->
            /\ NamedPresent
            /\ products' = DictSet(products, last'.pid,
                              [Named EXCEPT !.quantity = Named.quantity + last'.qty])
      [] last'.op = "sell_product" ->
            NamedPresent /\ products' = StoreAfterSale

\* After a failed add the id is taken: adding any product under it raises
\* DuplicateProductError.
FailedAddBlocksId ==
    last'.op = "add_product"
    => \A product \in NewProducts(last'.pid, MaxQuantity) \ {<<>>} :
          add_product(products', inventoryFile', product, "ok").exc
             = "DuplicateProductError"

\* C12 as stated: when the file write of add_product, remove_product,
\* restock_product or sell_product fails, the call raises
\* InvalidProductDataError, the store keeps the call's change, and the file
\* does not hold the store afterwards; after a failed add the same id is
\* refused as a duplicate.
C12_FailedWriteLeavesStoreAndFileApart ==
    [][ MutationWriteFailed
        => /\ last'.exc = "InvalidProductDataError"
           /\ MutationApplied
           /\ inventoryFile' # Serialized(products')
           /\ FailedAddBlocksId ]_vars

\* C12 as amended: such a call raises InvalidProductDataError and the store
\* keeps the call's change; the file is not brought up to date: it is as it
\* was before the call or partly written, so that it does not hold the store
\* afterwards whenever it held the store before the call and the call changed
\* the store (a sale of 0 units changes nothing); after a failed add the same
\* id is refused as a duplicate.
C12_FailedWriteKeepsChangeAndOldFile ==
    [][ MutationWriteFailed
        => /\ last'.exc = "InvalidProductDataError"
           /\ MutationApplied
           /\ inventoryFile' \in {inventoryFile, PartialFile}
           /\ (inventoryFile = Serialized(products) /\ products' # products)
                 => inventoryFile' # Serialized(products')
           /\ FailedAddBlocksId ]_vars

\* C12's case: a second product's add has raised on its file write; the store
\* holds both products and the file holds the first only.
C12_Witness ==
    /\ last.op = "add_product" /\ last.exc = "InvalidProductDataError"
    /\ faults = 1
    /\ Len(products) = 2
    /\ DictHas(products, last.pid)
    /\ inventoryFile = Serialized(SubSeq(products, 1, 1))

\* The units of the product that the ledger's records say were sold
RECURSIVE SoldInLedger(_, _)
SoldInLedger(log, pid) ==
    IF log = <<>> THEN 0
    ELSE (IF Head(log).product_id = pid THEN Head(log).quantity ELSE 0)
         + SoldInLedger(Tail(log), pid)

\* The product's stock with the units the ledger says were sold put back
StockPlusSold(d, log, pid) == DictGet(d, pid).quantity + SoldInLedger(log, pid)

\* C13: stock and ledger stay reconciled over add_product, restock_product
\* and process_sale, whether they return or raise: each such call leaves
\* every product of the store in the store, and leaves its quantity plus the
\* quantities of the ledger's records of it as they were, raised by the
\* amount when the call is a restock of that product that returned.  (Then
\* the quantity is always the quantity added, plus the amounts of the
\* restocks that returned, minus the quantities of its records.)
C13_StockReconciledWithLedger ==
    [][ Called({"add_product", "restock_product", "process_sale"})
        => \A pid \in ProductIds :
              DictHas(products, pid)
              => /\ DictHas(products', pid)
                 /\ StockPlusSold(products', sales_log', pid)
                       = StockPlusSold(products, sales_log, pid)
                         + (IF /\ last'.op = "restock_product"
                               /\ last'.pid = pid
                               /\ last'.exc = "none"
                            THEN last'.qty ELSE 0) ]_vars

\* process_sale is called with an id that the store does not hold, or with a
\* quantity above the product's stock or below 0.
SaleRefused ==
    /\ Called({"process_sale"})
    /\ \/ ~NamedPresent
       \/ last'.qty > Named.quantity
       \/ last'.qty < 0

\* Every sale that returns when made next receives the id SALE_n.
NextSaleReceives(n) ==
    \A pid \in ProductIds, quantity \in SellQuantities :
       LET o == process_sale(products', inventoryFile', sales_log', salesFile',
                             pid, quantity, "ok", "ok", isoformat(Today))
       IN o.exc = "none" => o.log[Len(o.log)].sale_id = SaleId(n)

=============================================================================
